---------------------------- MODULE Spec2Model ----------------------------
(***************************************************************************)
(* Model of src/app.py, the category recommendation dashboard.  One run of *)
(* the script is one request: the date guard, the two window reads, the    *)
(* emptiness guard, the partner selection, the cleaning, the overview      *)
(* rendering, the two partner-scoped reads, the recommendation and the     *)
(* two remaining tabs.  A new run starts on every user interaction.        *)
(*                                                                         *)
(* Strings are sequences of one-character strings, so that str.lower() is  *)
(* a real conversion.  Earnings are integers in thousandths, so that       *)
(* round(2) is a real rounding.  Only the columns the recommendation reads *)
(* (category, Conceptual_Group, total_earnings) are carried in a row.      *)
(***************************************************************************)
EXTENDS Integers, Sequences, FiniteSets

VARIABLES pc, start_date, end_date, category_df, raw_df, selected_partner,
          partner_categories, in_domain_groups, top_df, top_categories,
          recommended_df, conn, issued, outcome, display

vars == <<pc, start_date, end_date, category_df, raw_df, selected_partner,
          partner_categories, in_domain_groups, top_df, top_categories,
          recommended_df, conn, issued, outcome, display>>

-----------------------------------------------------------------------------
(* Bounds of the model. *)

\* Dates are the days 1..MaxDay.
MaxDay == 2
\* Longest free tail of a category result (after the filler rows).
MaxTail == 3

(* Program constants. *)

\* head(30) of the ranking.
TopN == 30
\* A missing total_earnings (NaN in the frame): no number of thousandths.
NaN == -1

-----------------------------------------------------------------------------
(* Values. *)

Range(s) == {s[i] : i \in DOMAIN s}

\* SQL NULL / Python None in a text column: no string.
Null == <<"NULL">>

Digit == <<"0", "1", "2", "3", "4", "5", "6", "7", "8", "9">>

\* str.lower() on one character.
LowerChar(c) ==
    CASE c = "N" -> "n"
      [] c = "O" -> "o"
      [] c = "E" -> "e"
      [] c = "G" -> "g"
      [] c = "A" -> "a"
      [] c = "B" -> "b"
      [] c = "F" -> "f"
      [] OTHER -> c

\* str.lower() on a string.
Lower(s) == [i \in DOMAIN s |-> LowerChar(s[i])]

none == <<"n", "o", "n", "e">>

Row(c, g, te) == [category |-> c, Conceptual_Group |-> g, total_earnings |-> te]


-----------------------------------------------------------------------------
(* Results the data source can return. *)

CatA == <<"a">>
CatB == <<"b">>
GrpLower == <<"g">>
GrpUpper == <<"G">>
CatNone == <<"N", "o", "n", "e">>

\* Rows a category result may end with: a category under two conceptual
\* groups, a null group, the category "None", a null category and a null
\* total.  The totals 1004 and 1001 differ but round(2) makes them equal.
TailRows ==
    { Row(CatA, GrpLower, 1004), Row(CatA, GrpUpper, 1001), Row(CatB, Null, 1001),
      Row(CatNone, GrpLower, 1004), Row(Null, GrpLower, 1001), Row(CatB, GrpLower, NaN) }

\* ORDER BY total_earnings DESC: non-increasing totals, NULL totals last.
QueryOrdered(s) ==
    \A i, j \in DOMAIN s :
        i < j => \/ s[j].total_earnings = NaN
                 \/ /\ s[i].total_earnings # NaN
                    /\ s[i].total_earnings >= s[j].total_earnings

\* GROUP BY category, Conceptual_Group: one row per pair.
KeyUnique(s) ==
    \A i, j \in DOMAIN s :
        (/\ s[i].category = s[j].category
         /\ s[i].Conceptual_Group = s[j].Conceptual_Group) => i = j

Tails ==
    { t \in UNION { [1..n -> TailRows] : n \in 0..MaxTail } :
        KeyUnique(t) /\ QueryOrdered(t) }

\* The i-th filler category, "f01", "f02", ...
FillerCat(i) == <<"f", Digit[(i \div 10) + 1], Digit[(i % 10) + 1]>>

\* k rows of distinct categories with distinct, larger totals.
Fillers(k) == [i \in 1..k |-> Row(FillerCat(i), GrpLower, 9003 - (20 * i))]

FillerCats(k) == [i \in 1..k |-> FillerCat(i)]

\* Results of fetch_category_data: short frames, and frames whose tail
\* lies across the head(30) cut-off.
CategoryResults == Tails \cup { Fillers(TopN - 1) \o t : t \in Tails }

\* Results of fetch_raw_data, the partner column of the DISTINCT
\* (category, partner) pairs.
PartnerP == <<"p">>
PartnerQ == <<"q">>
RawResults == { <<>>, <<PartnerQ, Null, PartnerP, PartnerQ>> }

\* Results of fetch_partner_category_data, the category column
\* (category IS NOT NULL, GROUP BY category).
UsedTails == { <<>>, <<CatA>>, <<CatB>>, <<CatB, CatA>> }
PartnerCategoryResults ==
    UsedTails \cup { FillerCats(TopN - 1) \o u : u \in UsedTails }

\* Results of the fetch_partner_conceptual_groups query
\* (DISTINCT, Conceptual_Group IS NOT NULL).
GroupResults == { <<>>, <<GrpLower>>, <<GrpUpper>>, <<GrpUpper, GrpLower>> }

\* Date inputs of the sidebar.
Days == 1..MaxDay
DateInputs == Days \X Days

-----------------------------------------------------------------------------
(* The frame operations of the script. *)

\* Series.dropna().unique().tolist(): first occurrences, in order.
DropNaUnique(s) ==
    LET Keep(i) == s[i] # Null /\ \A j \in 1..(i - 1) : s[j] # s[i]
        idx == { i \in DOMAIN s : Keep(i) }
        F[k \in 0..Len(s)] ==
            IF k = 0 THEN <<>>
            ELSE IF k \in idx THEN Append(F[k - 1], s[k]) ELSE F[k - 1]
    IN F[Len(s)]

\* The same filter comparing the category as it is spelled.
KeepRowCaseSensitive(r) ==
    /\ r.category # Null
    /\ r.total_earnings # NaN
    /\ r.category # none

\* dropna(subset=["category", "total_earnings"]) then
\* category.str.lower() != "none".
KeepRow(r) ==
    /\ r.category # Null
    /\ r.total_earnings # NaN
    /\ Lower(r.category) # none

Clean(df) == SelectSeq(df, KeepRow)

\* round(2) of a number of thousandths: to the nearest hundredth, halves to
\* the even hundredth.
Round2(x) ==
    LET h == x \div 10
        r == x % 10
    IN IF r < 5 THEN 10 * h
       ELSE IF r > 5 THEN 10 * (h + 1)
       ELSE IF h % 2 = 0 THEN 10 * h ELSE 10 * (h + 1)

\* DataFrame.round(2): every numeric column, here total_earnings.
RoundFrame(df) ==
    [i \in DOMAIN df |-> [df[i] EXCEPT !.total_earnings = Round2(@)]]

RemoveAt(s, i) == SubSeq(s, 1, i - 1) \o SubSeq(s, i + 1, Len(s))

\* Largest total of a non-empty frame.
MaxTotal(df) ==
    LET totals == { df[i].total_earnings : i \in DOMAIN df }
    IN CHOOSE m \in totals : \A x \in totals : m >= x

\* sort_values("total_earnings", ascending=False) with the default
\* kind="quicksort", which is not stable: every descending arrangement of
\* the rows is a possible result.
RECURSIVE SortValuesDesc(_)
SortValuesDesc(df) ==
    IF df = <<>> THEN { <<>> }
    ELSE LET m == MaxTotal(df)
             first == { i \in DOMAIN df : df[i].total_earnings = m }
         IN UNION { { <<df[i]>> \o t : t \in SortValuesDesc(RemoveAt(df, i)) }
                    : i \in first }

\* head(n)
HeadRows(df, n) == SubSeq(df, 1, IF Len(df) < n THEN Len(df) ELSE n)

Column(df) == [i \in DOMAIN df |-> df[i].category]

\* [cat for cat in top_categories if cat not in partner_categories]
NotUsed(c) == c \notin Range(partner_categories)
Gap(cats) == SelectSeq(cats, NotUsed)

\* category_df[category_df["category"].isin(recommended)]
IsIn(df, cats) ==
    LET In(r) == r.category \in Range(cats) IN SelectSeq(df, In)

\* The same label with the groups compared ignoring their case.
ClassifyIgnoringCase(x, groups) ==
    IF Lower(x) \in { Lower(y) : y \in Range(groups) }
    THEN "In-Domain" ELSE "Out-of-Domain"

\* lambda x: "In-Domain" if x in in_domain_groups else "Out-of-Domain"
Classify(x, groups) ==
    IF x \in Range(groups) THEN "In-Domain" ELSE "Out-of-Domain"

WithDomain(df, groups) ==
    [i \in DOMAIN df |->
        [category |-> df[i].category,
         Conceptual_Group |-> df[i].Conceptual_Group,
         total_earnings |-> df[i].total_earnings,
         Domain |-> Classify(df[i].Conceptual_Group, groups)]]

-----------------------------------------------------------------------------
(* The state of a run. *)

Queries == { "fetch_category_data", "fetch_raw_data",
             "fetch_partner_category_data", "fetch_partner_conceptual_groups" }

PartnerQueries == { "fetch_partner_category_data",
                    "fetch_partner_conceptual_groups" }

\* What the page shows besides its chrome: the three metrics, the table and
\* the chart of tab1, tab2 and tab3.  A slot holds nothing ("none"), what an
\* earlier run drew ("old") or what the current run drew ("new").
Slots == { "metrics", "tab1_table", "tab1_chart", "tab2", "tab3" }

Ended == { "stopped", "aborted", "done" }

Init ==
    /\ pc = "idle"
    /\ start_date = 1
    /\ end_date = 1
    /\ category_df = <<>>
    /\ raw_df = <<>>
    /\ selected_partner = Null
    /\ partner_categories = <<>>
    /\ in_domain_groups = <<>>
    /\ top_df = <<>>
    /\ top_categories = <<>>
    /\ recommended_df = <<>>
    /\ conn = [x \in Queries |-> "unopened"]
    /\ issued = <<>>
    /\ outcome = "none"
    /\ display = [x \in Slots |-> "none"]

frames == <<category_df, raw_df, selected_partner, partner_categories,
            in_domain_groups, top_df, top_categories, recommended_df>>

\* A user interaction starts the script from its first line: lines 85-86
\* read the two dates, every name of the script is unbound again and what
\* the page shows is now the work of an earlier run.
rerun ==
    /\ pc \in Ended \cup { "idle" }
    /\ \E d \in DateInputs :
        /\ start_date' = d[1]
        /\ end_date' = d[2]
    /\ pc' = "date_guard"
    /\ category_df' = <<>>
    /\ raw_df' = <<>>
    /\ selected_partner' = Null
    /\ partner_categories' = <<>>
    /\ in_domain_groups' = <<>>
    /\ top_df' = <<>>
    /\ top_categories' = <<>>
    /\ recommended_df' = <<>>
    /\ conn' = [x \in Queries |-> "unopened"]
    /\ issued' = <<>>
    /\ outcome' = "none"
    /\ display' = [x \in Slots |-> IF display[x] = "none" THEN "none" ELSE "old"]

\* The same test letting a start one day after the end through.
InvalidRangeAllowingOneDay(s, e) == s > e + 1

\* if start_date > end_date
InvalidRange(s, e) == s > e

\* Lines 88-90: st.sidebar.error and st.stop().
date_guard ==
    /\ pc = "date_guard"
    /\ IF InvalidRange(start_date, end_date)
       THEN /\ outcome' = "InvalidRange"
            /\ pc' = "stopped"
       ELSE /\ outcome' = outcome
            /\ pc' = "fetch_category"
    /\ UNCHANGED <<start_date, end_date, frames, conn, issued, display>>

\* A fetch function whose read returns: get_connection(), pd.read_sql(),
\* conn.close().
ReadReturns(query) ==
    /\ issued' = Append(issued, query)
    /\ conn' = [conn EXCEPT ![query] = "closed"]

\* A fetch function whose pd.read_sql() raises: the exception leaves the
\* function before conn.close() and ends the run.
ReadRaises(query) ==
    /\ issued' = Append(issued, query)
    /\ conn' = [conn EXCEPT ![query] = "open"]
    /\ outcome' = "DataSourceFailure"
    /\ pc' = "aborted"

\* Line 94.
fetch_category_data ==
    /\ pc = "fetch_category"
    /\ \/ /\ \E df \in CategoryResults : category_df' = df
          /\ ReadReturns("fetch_category_data")
          /\ pc' = "fetch_raw"
          /\ UNCHANGED outcome
       \/ /\ ReadRaises("fetch_category_data")
          /\ UNCHANGED category_df
    /\ UNCHANGED <<start_date, end_date, raw_df, selected_partner,
                   partner_categories, in_domain_groups, top_df,
                   top_categories, recommended_df, display>>

\* Line 95.
fetch_raw_data ==
    /\ pc = "fetch_raw"
    /\ \/ /\ \E df \in RawResults : raw_df' = df
          /\ ReadReturns("fetch_raw_data")
          /\ pc' = "empty_guard"
          /\ UNCHANGED outcome
       \/ /\ ReadRaises("fetch_raw_data")
          /\ UNCHANGED raw_df
    /\ UNCHANGED <<start_date, end_date, category_df, selected_partner,
                   partner_categories, in_domain_groups, top_df,
                   top_categories, recommended_df, display>>

\* The same test inverted.
IsEmptyInverted(df) == df # <<>>

\* if category_df.empty
IsEmpty(df) == df = <<>>

\* Lines 97-99: st.warning and st.stop().
empty_guard ==
    /\ pc = "empty_guard"
    /\ IF IsEmpty(category_df)
       THEN /\ outcome' = "NoData"
            /\ pc' = "stopped"
       ELSE /\ outcome' = outcome
            /\ pc' = "select_partner"
    /\ UNCHANGED <<start_date, end_date, frames, conn, issued, display>>

\* sorted(raw_df["partner"].dropna().unique().tolist()), as the set of its
\* options: the order of a selectbox does not limit what can be selected.
partner_list == Range(DropNaUnique(raw_df))

\* Lines 102-103: the selectbox returns one of its options, None when it
\* has none.
select_partner ==
    /\ pc = "select_partner"
    /\ IF partner_list = {}
       THEN selected_partner' = Null
       ELSE \E x \in partner_list : selected_partner' = x
    /\ pc' = "clean"
    /\ UNCHANGED <<start_date, end_date, category_df, raw_df,
                   partner_categories, in_domain_groups, top_df,
                   top_categories, recommended_df, conn, issued, outcome,
                   display>>

\* Lines 106-107.
clean ==
    /\ pc = "clean"
    /\ category_df' = Clean(category_df)
    /\ pc' = "overview"
    /\ UNCHANGED <<start_date, end_date, raw_df, selected_partner,
                   partner_categories, in_domain_groups, top_df,
                   top_categories, recommended_df, conn, issued, outcome,
                   display>>

\* Lines 111-148: the metrics, then tab1 with the rounded frame as a table
\* and the chart.
overview ==
    /\ pc = "overview"
    /\ category_df' = RoundFrame(category_df)
    /\ display' = [display EXCEPT !["metrics"] = "new",
                                  !["tab1_table"] = "new",
                                  !["tab1_chart"] = "new"]
    /\ pc' = "fetch_partner_category"
    /\ UNCHANGED <<start_date, end_date, raw_df, selected_partner,
                   partner_categories, in_domain_groups, top_df,
                   top_categories, recommended_df, conn, issued, outcome>>

\* Lines 151-152.
fetch_partner_category_data ==
    /\ pc = "fetch_partner_category"
    /\ \/ /\ \E cats \in PartnerCategoryResults : partner_categories' = cats
          /\ ReadReturns("fetch_partner_category_data")
          /\ pc' = "fetch_partner_groups"
          /\ UNCHANGED outcome
       \/ /\ ReadRaises("fetch_partner_category_data")
          /\ UNCHANGED partner_categories
    /\ UNCHANGED <<start_date, end_date, category_df, raw_df,
                   selected_partner, in_domain_groups, top_df,
                   top_categories, recommended_df, display>>

\* Line 153; the function returns df["Conceptual_Group"].dropna().unique().
fetch_partner_conceptual_groups ==
    /\ pc = "fetch_partner_groups"
    /\ \/ /\ \E col \in GroupResults : in_domain_groups' = DropNaUnique(col)
          /\ ReadReturns("fetch_partner_conceptual_groups")
          /\ pc' = "recommend"
          /\ UNCHANGED outcome
       \/ /\ ReadRaises("fetch_partner_conceptual_groups")
          /\ UNCHANGED in_domain_groups
    /\ UNCHANGED <<start_date, end_date, category_df, raw_df,
                   selected_partner, partner_categories, top_df,
                   top_categories, recommended_df, display>>

\* The same list without head(30).
RankedCategoriesOfWholeFrame(sorted) == Column(sorted)

\* The categories the gap is taken from, line 156: those of head(30).
RankedCategories(sorted) == Column(HeadRows(sorted, TopN))

\* Lines 156-161.
recommend ==
    /\ pc = "recommend"
    /\ \E sorted \in SortValuesDesc(category_df) :
        LET top == RankedCategories(sorted)
            recommended == Gap(top)
        IN /\ top_df' = HeadRows(sorted, TopN)
           /\ top_categories' = top
           /\ recommended_df' =
                  WithDomain(IsIn(category_df, recommended), in_domain_groups)
    /\ pc' = "tab2"
    /\ UNCHANGED <<start_date, end_date, category_df, raw_df,
                   selected_partner, partner_categories, in_domain_groups,
                   conn, issued, outcome, display>>

\* Lines 163-195: the recommendations, or st.info when there are none.
tab2 ==
    /\ pc = "tab2"
    /\ outcome' = IF recommended_df # <<>> THEN "Recommendations"
                  ELSE "SaturatedPartner"
    /\ display' = [display EXCEPT !["tab2"] = "new"]
    /\ pc' = "tab3"
    /\ UNCHANGED <<start_date, end_date, frames, conn, issued>>

\* Lines 199-224: the partner's groups and usage; the script ends.
tab3 ==
    /\ pc = "tab3"
    /\ display' = [display EXCEPT !["tab3"] = "new"]
    /\ pc' = "done"
    /\ UNCHANGED <<start_date, end_date, frames, conn, issued, outcome>>

Next ==
    \/ rerun
    \/ date_guard
    \/ fetch_category_data
    \/ fetch_raw_data
    \/ empty_guard
    \/ select_partner
    \/ clean
    \/ overview
    \/ fetch_partner_category_data
    \/ fetch_partner_conceptual_groups
    \/ recommend
    \/ tab2
    \/ tab3

Spec == Init /\ [][Next]_vars

-----------------------------------------------------------------------------
(* Properties. *)

\* A recommendation row without its Domain label.
Plain(r) == Row(r.category, r.Conceptual_Group, r.total_earnings)

\* The recommendation has been computed in this run.
Recommended == pc \in { "tab2", "tab3", "done" }

\* The cleaning of this run has acted.
Cleaned ==
    \/ pc \in { "overview", "fetch_partner_category", "fetch_partner_groups",
                "recommend", "tab2", "tab3", "done" }
    \/ pc = "aborted" /\ Len(issued) > 2

\* A row that cleaning must drop: no category, no total, or a category
\* that is "none" in some letter casing.
Unclean(r) ==
    \/ r.category = Null
    \/ r.total_earnings = NaN
    \/ Lower(r.category) = none

\* C1: every row of the recommendation output is one of the first 30 rows
\* of the cleaned aggregates ranked by total_earnings descending, and no
\* output row has a category of usedCategories.
C1_OutputWithinTopN ==
    Recommended =>
        \A i \in DOMAIN recommended_df :
            /\ \E j \in DOMAIN top_df : Plain(recommended_df[i]) = top_df[j]
            /\ recommended_df[i].category \notin Range(partner_categories)

\* C2: a run whose start_date is after its end_date is rejected as
\* InvalidRange, and none of the four queries is issued in it: once the
\* date guard has acted the run has stopped, no query was issued and no
\* connection was opened.
C2_InvalidRangeRejected ==
    (start_date > end_date /\ pc \notin { "idle", "date_guard" }) =>
        /\ pc = "stopped"
        /\ outcome = "InvalidRange"
        /\ issued = <<>>
        /\ \A x \in Queries : conn[x] = "unopened"

C2_Witness ==
    /\ pc = "stopped"
    /\ start_date > end_date
    /\ outcome = "InvalidRange"
    /\ \E x \in Slots : display[x] = "old"

\* C3: every connection a query operation opens is released before the
\* operation ends, whether its read succeeds or fails, so no connection is
\* open between two steps of a run or at its end.
C3_ConnectionsReleased == \A x \in Queries : conn[x] # "open"

\* The category read of this run returned no rows: the frame is empty and
\* the run is before the cleaning, stopped, or aborted by the second read.
EmptyFetched ==
    /\ conn["fetch_category_data"] = "closed"
    /\ category_df = <<>>
    /\ \/ pc \in { "fetch_raw", "empty_guard", "select_partner", "clean",
                   "stopped" }
       \/ pc = "aborted" /\ Len(issued) = 2

\* C4: when the category read returns no rows the run short-circuits into
\* the 'no data available' end: it goes no further than the emptiness
\* guard, issues no partner-scoped query, computes no recommendation,
\* draws no metric, table or chart, and ends as NoData; the emptiness
\* itself raises nothing, an error can only be the second read failing.
C4_EmptyResultShortCircuits ==
    EmptyFetched =>
        /\ pc \in { "fetch_raw", "empty_guard", "stopped", "aborted" }
        /\ Range(issued) \cap PartnerQueries = {}
        /\ top_df = <<>> /\ top_categories = <<>> /\ recommended_df = <<>>
        /\ \A x \in Slots : display[x] # "new"
        /\ pc = "stopped" => outcome = "NoData"
        /\ pc \in { "fetch_raw", "empty_guard" } => outcome = "none"
        /\ pc = "aborted" => conn["fetch_raw_data"] = "open"

C4_Witness ==
    /\ EmptyFetched
    /\ pc = "stopped"
    /\ outcome = "NoData"
    /\ issued = <<"fetch_category_data", "fetch_raw_data">>

\* C5: when one of the four reads fails the run is aborted with no later
\* query, and nothing the failing run drew replaces what was shown before
\* it started, whichever read fails.
C5_FailureLeavesDisplay ==
    outcome = "DataSourceFailure" =>
        /\ pc = "aborted"
        /\ conn[issued[Len(issued)]] = "open"
        /\ \A x \in Slots : display[x] # "new"

\* C6: a recommendation row is In-Domain exactly when its conceptual group
\* is one of the partner's groups, compared as spelled, a null group never
\* being one; equal groups get equal labels; with no partner group every
\* row is Out-of-Domain and the run does not fail.
C6_DomainLabel ==
    /\ \A i \in DOMAIN recommended_df :
          LET r == recommended_df[i]
          IN /\ r.Domain \in { "In-Domain", "Out-of-Domain" }
             /\ r.Domain = "In-Domain" <=>
                    /\ r.Conceptual_Group # Null
                    /\ \E k \in DOMAIN in_domain_groups :
                           in_domain_groups[k] = r.Conceptual_Group
    /\ \A i, j \in DOMAIN recommended_df :
          recommended_df[i].Conceptual_Group = recommended_df[j].Conceptual_Group
              => recommended_df[i].Domain = recommended_df[j].Domain
    /\ (Recommended /\ in_domain_groups = <<>>) =>
          /\ \A i \in DOMAIN recommended_df :
                recommended_df[i].Domain = "Out-of-Domain"
          /\ outcome # "DataSourceFailure"
          /\ pc = "done" => outcome \in { "Recommendations", "SaturatedPartner" }

C6_Witness ==
    /\ pc = "done"
    /\ in_domain_groups = <<GrpLower>>
    /\ \E i, j, k \in DOMAIN recommended_df :
          /\ recommended_df[i].Conceptual_Group = GrpLower
          /\ recommended_df[i].Domain = "In-Domain"
          /\ recommended_df[j].Conceptual_Group = GrpUpper
          /\ recommended_df[j].Domain = "Out-of-Domain"
          /\ recommended_df[k].Conceptual_Group = Null
          /\ recommended_df[k].Domain = "Out-of-Domain"

C6_WitnessNoGroups ==
    /\ pc = "done"
    /\ in_domain_groups = <<>>
    /\ recommended_df # <<>>
    /\ outcome = "Recommendations"

\* C7: when every category of the ranked top 30 is one of usedCategories
\* the recommendation output is empty and the run ends in the
\* 'partner already uses all top categories' outcome, not in an error.
C7_SaturatedPartner ==
    (Recommended /\ Range(Column(top_df)) \subseteq Range(partner_categories)) =>
        /\ recommended_df = <<>>
        /\ pc \in { "tab3", "done" } => outcome = "SaturatedPartner"
        /\ pc = "tab2" => outcome = "none"

\* The top 30 are all used while a row below the cut-off is not.
C7_Witness ==
    /\ pc = "done"
    /\ Len(top_df) = TopN
    /\ Range(Column(top_df)) \subseteq Range(partner_categories)
    /\ \E i \in DOMAIN category_df :
          category_df[i].category \notin Range(partner_categories)
    /\ outcome = "SaturatedPartner"

\* C8: after cleaning no row with a null category, a null total_earnings
\* or a category equal to "none" in any letter casing remains in the
\* aggregates, so none is in the top-categories table, in the ranked top
\* 30 or in the recommendation output.
C8_CleanedFrame ==
    /\ Cleaned => \A i \in DOMAIN category_df : ~Unclean(category_df[i])
    /\ display["tab1_table"] = "new" =>
          \A i \in DOMAIN category_df : ~Unclean(category_df[i])
    /\ \A i \in DOMAIN top_df : ~Unclean(top_df[i])
    /\ \A i \in DOMAIN recommended_df : ~Unclean(recommended_df[i])

\* The guard let a non-empty frame through and cleaning dropped its rows.
C8_WitnessAllDropped ==
    /\ pc = "fetch_partner_category"
    /\ display["tab1_table"] = "new"
    /\ category_df = <<>>

\* C9: the ranking adds no tie-break of its own: the ranked top 30 are
\* exactly the first 30 rows of the cleaned aggregates in the order of the
\* query, rows of equal total_earnings keeping that order, also at the
\* cut-off.
C9_RankingKeepsQueryOrder ==
    Recommended => top_df = HeadRows(category_df, TopN)

\* C10: SaturatedPartner is reported only when a row survives cleaning and
\* every top category is used; a run whose aggregates are empty after
\* cleaning ends as 'no data available', never as SaturatedPartner.
C10_OutcomesForTheirCause ==
    /\ outcome = "SaturatedPartner" =>
          /\ category_df # <<>>
          /\ Range(Column(top_df)) \subseteq Range(partner_categories)
    /\ (pc = "done" /\ category_df = <<>>) => outcome = "NoData"

=============================================================================
